---- MODULE Spec2Model ----
(***************************************************************************)
(* Grammar-correction pipeline of AI_edit_paper.                           *)
(*                                                                         *)
(* Entry points are selected by `prog`:                                    *)
(*   "main"    - src/main.py: main() driving process_sentence() over the   *)
(*               shrinking document (segmentation, then correction);       *)
(*   "batch"   - src/correct.py: grammar_correction_main() over a list of  *)
(*               preprocessed sentences (outer loop with nested QA loop);  *)
(*   "prep"    - src/preprocessing.py: preprocessing_main() segmenting a   *)
(*               document into sentences;                                  *)
(*   "extract" - one direct call of extract_sentence_from_queue().         *)
(*                                                                         *)
(*   "assemble"- one call of assemble_corrected_paper().                   *)
(*                                                                         *)
(* Spec explores main and batch with every shape of proposer and validator *)
(* response over very short documents.  SpecDriver explores main, prep and *)
(* batch over longer documents and extractor responses that may be absent  *)
(* from the document, with a sample of proposer and validator responses.   *)
(* SpecExtract applies extract_sentence_from_queue() and SpecAssemble      *)
(* applies assemble_corrected_paper() to bounded inputs.                   *)
(*                                                                         *)
(* Every model call (extractor, verifier, proposer, validator) is one      *)
(* step whose response is chosen nondeterministically from a small set.    *)
(* Text is a sequence of one-character strings.  Confidence scores are     *)
(* kept in tenths (0.5 is 5).                                              *)
(***************************************************************************)
EXTENDS Integers, Sequences, FiniteSets, TLC

\* ---------------------------------------------------------------- bounds
MaxDocLen == 1
MaxRespLen == 1
MaxBatch == 2
MaxSteps == 1
QACallCap == 6
MaxText == 3
MaxDriverSteps == 2
MaxChunk == 3
MaxEntries == 3

\* ------------------------------------------------------ program constants
initial_sentence_length_upper_bound == 500
bound_increment == 200
max_attempts == 5
max_correction_attempts == 8
batch_max_attempts == 5
max_qa_attempts == 5
ConfThreshold == 5

\* ------------------------------------------------------------ input sets
Alphabet == {"a", " "}
FailureMarker == <<"Failed to find valid correction">>

RECURSIVE SeqsUpTo(_, _)
SeqsUpTo(S, n) ==
    IF n = 0 THEN {<<>>}
    ELSE LET shorter == SeqsUpTo(S, n - 1)
         IN  shorter \cup {Append(s, c) : s \in shorter, c \in S}

Docs == SeqsUpTo(Alphabet, MaxDocLen)
Responses == SeqsUpTo(Alphabet, MaxRespLen)
SentencePool == {<<"a">>, <<"b">>}
BatchInputs == SeqsUpTo(SentencePool, MaxBatch)
Fixes == {<<"x">>}
DriverDocs == SeqsUpTo(Alphabet, MaxText)
DriverResponses == {<<>>, <<" ">>, <<"a">>, <<"b">>}
CallResponses == SeqsUpTo(Alphabet \cup {"b"}, MaxRespLen)
ChunkSizes == 0..MaxChunk
FinalTexts == {<<>>, <<"a">>, <<"x", "y">>, <<" ">>}
ConfValues == {3, 5, 9}

\* A decoded JSON object: `has` is the set of keys present; a key that is
\* absent carries a fixed filler value that the model never reads.
Has(d, key) == key \in d.has

\* A decoded JSON object with the keys in `h` present.
Proposal(h, t, c, e) ==
    [has |-> h,
     corrected_sentence |-> IF "corrected_sentence" \in h THEN t ELSE <<>>,
     confidence |-> IF "confidence" \in h THEN c ELSE 0,
     explanation |-> IF "explanation" \in h THEN e ELSE ""]

ProposalKeys == {"corrected_sentence", "confidence", "explanation"}

\* Correction Proposals the proposer may answer for sentence s: every
\* complete proposal over the sample texts and confidences, and proposals
\* with exactly one key of the GrammarCorrection schema absent.
Proposals(s) ==
    {Proposal(ProposalKeys, t, c, "e1") : t \in {s} \cup Fixes, c \in ConfValues}
    \cup {Proposal(ProposalKeys \ {k}, <<"x">>, 9, "e1") : k \in ProposalKeys}
    \cup {Proposal(ProposalKeys \ {"corrected_sentence"}, <<>>, 5, "e1")}

Verdict(h, a, b, c, k) ==
    [has |-> h,
     is_valid |-> "is_valid" \in h /\ a,
     maintains_meaning |-> "maintains_meaning" \in h /\ b,
     technical_accuracy |-> "technical_accuracy" \in h /\ c,
     concerns |-> IF "concerns" \in h THEN k ELSE <<>>]

FlagKeys == {"is_valid", "maintains_meaning", "technical_accuracy"}
VerdictKeys == FlagKeys \cup {"concerns"}

\* QA Verdicts the validator may answer: every combination of the three
\* flags, accepting verdicts with each shape of concerns, and verdicts with
\* one or all of the flags absent.
Verdicts ==
    {Verdict(VerdictKeys, a, b, c, <<"c1">>) :
        a \in BOOLEAN, b \in BOOLEAN, c \in BOOLEAN}
    \cup {Verdict(VerdictKeys, TRUE, TRUE, TRUE, <<>>),
          Verdict(FlagKeys, TRUE, TRUE, TRUE, <<>>)}
    \cup {Verdict(VerdictKeys \ {k}, TRUE, TRUE, TRUE, <<"c1">>) : k \in FlagKeys}
    \cup {Verdict({"concerns"}, TRUE, TRUE, TRUE, <<"c1">>)}

\* A Boundary Verifier result as decoded from its JSON.
Verifications ==
    {[has |-> {"is_valid"}, is_valid |-> TRUE],
     [has |-> {"is_valid"}, is_valid |-> FALSE],
     [has |-> {}, is_valid |-> FALSE]}

\* The responses explored with the longer documents: a confident rewrite
\* from the proposer, an accepting and a rejecting verdict.
SampleProposals(s) == {Proposal(ProposalKeys, <<"x">>, 9, "e1")}
SampleVerdicts ==
    {Verdict(VerdictKeys, TRUE, TRUE, TRUE, <<>>),
     Verdict(VerdictKeys, TRUE, TRUE, FALSE, <<"c1">>)}

\* Lists of Result Entries handed to assemble_corrected_paper().
AssembleEntries ==
    {[original |-> <<"a">>, final |-> f, has_changes |-> f # <<"a">>,
      qa_concerns |-> <<>>] : f \in FinalTexts}
AssembleInputs == SeqsUpTo(AssembleEntries, MaxEntries)

\* Values of `correction` and `qa_result` before their first assignment.
NoProposal ==
    [has |-> {}, corrected_sentence |-> <<>>, confidence |-> 0,
     explanation |-> ""]
NoVerdict ==
    [has |-> {}, is_valid |-> FALSE, maintains_meaning |-> FALSE,
     technical_accuracy |-> FALSE, concerns |-> <<>>]

\* ------------------------------------------------------------ pure helpers
Min(a, b) == IF a < b THEN a ELSE b

\* text[:n]
Prefix(text, n) == SubSeq(text, 1, Min(n, Len(text)))

\* Variant: one character more than n is removed.
Drop_SkipsOne(text, n) == SubSeq(text, Min(n, Len(text)) + 2, Len(text))

\* Variant: the characters are removed from the end of the text.
Drop_FromEnd(text, n) == SubSeq(text, 1, Len(text) - Min(n, Len(text)))

\* text[n:]
Drop(text, n) == SubSeq(text, Min(n, Len(text)) + 1, Len(text))

RECURSIVE LStrip(_)
LStrip(s) == IF s # <<>> /\ Head(s) = " " THEN LStrip(Tail(s)) ELSE s

RECURSIVE RStrip(_)
RStrip(s) ==
    IF s # <<>> /\ s[Len(s)] = " " THEN RStrip(SubSeq(s, 1, Len(s) - 1)) ELSE s

\* str.strip()
Strip(s) == RStrip(LStrip(s))

OccursAt(chunk, s, i) ==
    /\ i + Len(s) <= Len(chunk)
    /\ SubSeq(chunk, i + 1, i + Len(s)) = s

\* str.find(): lowest 0-based index of s in chunk, -1 when absent
Find(chunk, s) ==
    IF \E i \in 0..Len(chunk) : OccursAt(chunk, s, i)
    THEN CHOOSE i \in 0..Len(chunk) :
            /\ OccursAt(chunk, s, i)
            /\ \A j \in 0..(i - 1) : ~OccursAt(chunk, s, j)
    ELSE -1

\* Variant: the result of find() is used without the -1 test.
EndIndex_NoFallback(chunk, s) == Find(chunk, s) + Len(s)

\* Variant: end_index is the offset where the sentence starts.
EndIndex_StartOffset(chunk, s) ==
    IF Find(chunk, s) = -1 THEN Len(chunk) ELSE Find(chunk, s)

\* Variant: a text that is not found consumes nothing.
EndIndex_DriftZero(chunk, s) ==
    IF Find(chunk, s) = -1 THEN 0 ELSE Find(chunk, s) + Len(s)

\* end_index computed by extract_sentence_from_queue for a stripped response
EndIndex(chunk, s) ==
    IF Find(chunk, s) = -1 THEN Len(chunk) ELSE Find(chunk, s) + Len(s)

\* dict.get(key, default)
Get(d, key, default) == IF Has(d, key) THEN d[key] ELSE default

\* Variant: the gate lets a confidence of exactly 0.5 through.
LowConfidence_Strict(c) == c.confidence < ConfThreshold

\* float(correction["confidence"]) <= 0.5
LowConfidence(c) == c.confidence <= ConfThreshold

\* all three required keys are in qa_result
Complete(v) ==
    /\ Has(v, "is_valid")
    /\ Has(v, "maintains_meaning")
    /\ Has(v, "technical_accuracy")

\* Variant: technical_accuracy is not consulted.
Accepting_TwoFlags(v) == v.is_valid /\ v.maintains_meaning

\* Variant: the flags are combined with `or`.
Accepting_AnyFlag(v) == v.is_valid \/ v.maintains_meaning \/ v.technical_accuracy

\* qa_result["is_valid"] and qa_result["maintains_meaning"] and
\* qa_result["technical_accuracy"]
Accepting(v) == v.is_valid /\ v.maintains_meaning /\ v.technical_accuracy

\* The verdict carries all three flags and each of them is true (the
\* data model's "accepted" verdict, used by the history variables).
AllThreeTrue(v) ==
    /\ FlagKeys \subseteq v.has
    /\ v.is_valid = TRUE
    /\ v.maintains_meaning = TRUE
    /\ v.technical_accuracy = TRUE

\* ------------------------------------------------------------------ state
VARIABLES
    prog,                \* which entry point runs
    pc,                  \* position in the running entry point
    document,            \* main: remaining document
    total_chars,         \* main: len(document) at load
    chars_processed,     \* main: cumulative end_index
    sentence_count,      \* main: number of loop bodies started
    preprocessed,        \* batch: input list of sentences
    i,                   \* batch: sentences finished so far
    results,             \* entries written to the progress file / result list
    upper_bound,         \* segmentation: current size bound
    attempt,             \* segmentation: attempts made
    verification,        \* segmentation: last verifier result
    sentence,            \* current sentence (original_sentence in batch)
    end_index,           \* segmentation: offset where consumption resumes
    correction_attempt,  \* correction: outer attempt counter
    correction,          \* correction: last proposal fetched
    qa_result,           \* correction: last verdict received
    QA_passed,           \* correction: an accepting verdict was received
    num_attempts,        \* batch: inner QA loop counter
    qa_yielded_result,   \* batch: inner QA loop flag
    nProp,               \* history: proposer calls for this sentence
    nQAThis,             \* history: validator calls for the current proposal
    allLow,              \* history: every proposal so far had confidence <= 0.5
    lastJudged,          \* history: which proposal the last verdict was for
    judgedText,          \* history: corrected text given to the last validator call
    judgedVerdict,       \* history: the last verdict received for this sentence
    acceptedSeen,        \* history: some verdict had all three flags true
    input,               \* history: the document as loaded
    replies,             \* which response sets the model calls draw from
    seg_log,             \* history: extractor and verifier calls for this sentence
    fault,               \* history: how the model call of the last step failed
    final_paper          \* assemble: text returned by assemble_corrected_paper

driverVars == <<document, total_chars, chars_processed, sentence_count,
                preprocessed, i, results>>
segVars == <<upper_bound, attempt, verification, end_index>>
corrVars == <<correction_attempt, correction, qa_result, QA_passed,
              num_attempts, qa_yielded_result>>
histVars == <<nProp, nQAThis, allLow, lastJudged, judgedText, judgedVerdict,
              acceptedSeen>>
runVars == <<prog, input, replies, final_paper>>
vars == <<runVars, pc, driverVars, segVars, sentence, corrVars, histVars,
          seg_log, fault>>

\* seg_log before the first extractor call for a sentence.
NoSegLog ==
    [calls |-> 0, bound |-> 0, chunk_len |-> 0, sentence |-> <<>>,
     end_index |-> 0, drift |-> FALSE, all_drift |-> TRUE,
     accepted |-> FALSE, acc_sentence |-> <<>>, acc_end |-> 0]

\* The response sets of the run.
ExtractorReplies ==
    IF replies = "all" THEN Responses
    ELSE IF prog = "extract" THEN CallResponses ELSE DriverResponses
ProposerReplies(s) == IF replies = "all" THEN Proposals(s) ELSE SampleProposals(s)
ValidatorReplies == IF replies = "all" THEN Verdicts ELSE SampleVerdicts
StepCap == IF replies = "all" THEN MaxSteps ELSE MaxDriverSteps

\* What every entry point starts from, once prog, replies, document,
\* preprocessed, results, upper_bound and pc are chosen.
InitLocals ==
    /\ input = document
    /\ total_chars = Len(document)
    /\ chars_processed = 0
    /\ sentence_count = 0
    /\ i = 0
    /\ attempt = 0
    /\ verification = [has |-> {"is_valid"}, is_valid |-> FALSE]
    /\ sentence = <<>>
    /\ end_index = 0
    /\ correction_attempt = 0
    /\ correction = NoProposal
    /\ qa_result = NoVerdict
    /\ QA_passed = FALSE
    /\ num_attempts = 0
    /\ qa_yielded_result = FALSE
    /\ nProp = 0
    /\ nQAThis = 0
    /\ allLow = TRUE
    /\ lastJudged = "none"
    /\ judgedText = <<>>
    /\ judgedVerdict = NoVerdict
    /\ acceptedSeen = FALSE
    /\ seg_log = NoSegLog
    /\ fault = "none"
    /\ final_paper = <<>>

Init ==
    /\ prog \in {"main", "batch"}
    /\ replies = "all"
    /\ document \in (IF prog = "main" THEN Docs ELSE {<<>>})
    /\ preprocessed \in (IF prog = "batch" THEN BatchInputs ELSE {<<>>})
    /\ pc = IF prog = "main" THEN "driver" ELSE "batch_loop"
    /\ upper_bound = initial_sentence_length_upper_bound
    /\ results = <<>>
    /\ InitLocals

\* main() or preprocessing_main() on a longer document, or
\* grammar_correction_main() on a list of sentences.
InitDriver ==
    /\ prog \in {"main", "prep", "batch"}
    /\ replies = "sample"
    /\ document \in (IF prog = "batch" THEN {<<>>} ELSE DriverDocs)
    /\ preprocessed \in (IF prog = "batch" THEN BatchInputs ELSE {<<>>})
    /\ pc = IF prog = "batch" THEN "batch_loop" ELSE "driver"
    /\ upper_bound = initial_sentence_length_upper_bound
    /\ results = <<>>
    /\ InitLocals

\* extract_sentence_from_queue(text, max_chunk) about to be called.
InitExtract ==
    /\ prog = "extract"
    /\ replies = "sample"
    /\ document \in DriverDocs
    /\ preprocessed = <<>>
    /\ pc = "call"
    /\ upper_bound \in ChunkSizes
    /\ results = <<>>
    /\ InitLocals

\* assemble_corrected_paper(corrected_results) about to be called.
InitAssemble ==
    /\ prog = "assemble"
    /\ replies = "sample"
    /\ document = <<>>
    /\ preprocessed = <<>>
    /\ pc = "call"
    /\ upper_bound = initial_sentence_length_upper_bound
    /\ results \in AssembleInputs
    /\ InitLocals

\* Variant: the loop condition tests the document without stripping it.
DriverStep_NoStrip ==
    /\ prog = "main" /\ pc = "driver"
    /\ IF document # <<>>
       THEN /\ sentence_count < StepCap
            /\ sentence_count' = sentence_count + 1
            /\ upper_bound' = initial_sentence_length_upper_bound
            /\ attempt' = 0
            /\ verification' = [has |-> {"is_valid"}, is_valid |-> FALSE]
            /\ seg_log' = NoSegLog
            /\ pc' = "seg"
       ELSE /\ pc' = "done"
            /\ UNCHANGED <<sentence_count, upper_bound, attempt, verification,
                           seg_log>>
    /\ UNCHANGED <<runVars, document, total_chars, chars_processed, preprocessed,
                   i, results, end_index, sentence, corrVars, histVars>>
    /\ fault' = "none"

\* ------------------------------------------------------- main.py: driver
\* main(): `while document.strip():` and the first lines of
\* process_sentence().  The loop body is entered at most StepCap times.
DriverStep ==
    /\ prog = "main" /\ pc = "driver"
    /\ IF Strip(document) # <<>>
       THEN /\ sentence_count < StepCap
            /\ sentence_count' = sentence_count + 1
            /\ upper_bound' = initial_sentence_length_upper_bound
            /\ attempt' = 0
            /\ verification' = [has |-> {"is_valid"}, is_valid |-> FALSE]
            /\ seg_log' = NoSegLog
            /\ pc' = "seg"
       ELSE /\ pc' = "done"
            /\ UNCHANGED <<sentence_count, upper_bound, attempt, verification,
                           seg_log>>
    /\ UNCHANGED <<runVars, document, total_chars, chars_processed, preprocessed,
                   i, results, end_index, sentence, corrVars, histVars>>
    /\ fault' = "none"

\* Variant: the attempt limit is compared with <=.
SegContinue_OneMore == ~verification.is_valid /\ attempt <= max_attempts

\* Variant: the loop condition does not consult the verifier's result.
SegContinue_IgnoresValid == attempt < max_attempts

\* `while not verification["is_valid"] and attempt < max_attempts`
SegContinue == ~verification.is_valid /\ attempt < max_attempts

\* The entry points that run the segmentation loop.
SegProgs == {"main", "prep"}

\* The pair returned by extract_sentence_from_queue(text, max_chunk) when
\* the extractor answers `resp`.
extract_sentence_from_queue(text, max_chunk, resp) ==
    LET chunk == Prefix(text, max_chunk)
    IN  [sentence |-> Strip(resp), end_index |-> EndIndex(chunk, Strip(resp))]

\* The record of one extractor call in the segmentation history.
LogExtract(log, text, max_chunk, r) ==
    LET chunk == Prefix(text, max_chunk)
        absent == \A k \in 0..Len(chunk) : ~OccursAt(chunk, r.sentence, k)
    IN  [log EXCEPT !.calls = log.calls + 1,
                    !.bound = max_chunk,
                    !.chunk_len = Len(chunk),
                    !.sentence = r.sentence,
                    !.end_index = r.end_index,
                    !.drift = absent,
                    !.all_drift = log.all_drift /\ absent]

\* Variant: the extractor call itself removes the consumed text.
Extract_Consumes ==
    /\ prog \in SegProgs /\ pc = "seg" /\ SegContinue
    /\ \E resp \in ExtractorReplies :
          LET r == extract_sentence_from_queue(document, upper_bound, resp)
          IN  /\ sentence' = r.sentence
              /\ end_index' = r.end_index
              /\ seg_log' = LogExtract(seg_log, document, upper_bound, r)
              /\ document' = Drop(document, r.end_index)
    /\ pc' = "verify"
    /\ UNCHANGED <<runVars, total_chars, chars_processed, sentence_count,
                   preprocessed, i, results, upper_bound, attempt,
                   verification, corrVars, histVars>>
    /\ fault' = "none"

\* sentence, end_index = extract_sentence_from_queue(document, bound)
\* with the extractor answering `resp`.
Extract ==
    /\ prog \in SegProgs /\ pc = "seg" /\ SegContinue
    /\ \E resp \in ExtractorReplies :
          LET r == extract_sentence_from_queue(document, upper_bound, resp)
          IN  /\ sentence' = r.sentence
              /\ end_index' = r.end_index
              /\ seg_log' = LogExtract(seg_log, document, upper_bound, r)
    /\ pc' = "verify"
    /\ UNCHANGED <<runVars, driverVars, upper_bound, attempt, verification,
                   corrVars, histVars>>
    /\ fault' = "none"

\* The chat() call of the extractor fails, or its response has no
\* message content: RuntimeError leaves the caller.
ExtractRaise ==
    /\ \/ prog \in SegProgs /\ pc = "seg" /\ SegContinue
       \/ prog = "extract" /\ pc = "call"
    /\ fault' \in {"call_failed", "no_content"}
    /\ pc' = "aborted"
    /\ UNCHANGED <<runVars, seg_log, driverVars, segVars, sentence, corrVars,
                   histVars>>

\* Variant: a rejected candidate is judged again without a new extraction.
Verify_Rechecks ==
    /\ prog \in SegProgs /\ pc = "verify"
    /\ \E v \in Verifications :
          /\ verification' = v
          /\ pc' = IF ~Has(v, "is_valid") THEN "aborted"
                   ELSE IF v.is_valid THEN "seg" ELSE "verify"
          /\ seg_log' = IF v.is_valid /\ ~seg_log.accepted
                        THEN [seg_log EXCEPT !.accepted = TRUE,
                                             !.acc_sentence = sentence,
                                             !.acc_end = end_index]
                        ELSE seg_log
    /\ attempt' = attempt + 1
    /\ upper_bound' = upper_bound + bound_increment
    /\ UNCHANGED <<runVars, driverVars, end_index, sentence, corrVars, histVars>>
    /\ fault' = "none"

\* double_check_preprocessing(sentence) returning v, then
\* attempt += 1, bound += 200.  A result without the is_valid key raises
\* KeyError when the loop condition is evaluated next.
Verify ==
    /\ prog \in SegProgs /\ pc = "verify"
    /\ \E v \in Verifications :
          /\ verification' = v
          /\ pc' = IF Has(v, "is_valid") THEN "seg" ELSE "aborted"
          /\ seg_log' = IF v.is_valid /\ ~seg_log.accepted
                        THEN [seg_log EXCEPT !.accepted = TRUE,
                                             !.acc_sentence = sentence,
                                             !.acc_end = end_index]
                        ELSE seg_log
    /\ attempt' = attempt + 1
    /\ upper_bound' = upper_bound + bound_increment
    /\ UNCHANGED <<runVars, driverVars, end_index, sentence, corrVars, histVars>>
    /\ fault' = "none"

\* The chat() call of the verifier fails (it is outside the try block).
VerifyRaise ==
    /\ prog \in SegProgs /\ pc = "verify"
    /\ fault' = "call_failed"
    /\ pc' = "aborted"
    /\ UNCHANGED <<runVars, seg_log, driverVars, segVars, sentence, corrVars,
                   histVars>>

\* The verifier's response has no message content, or the content is not
\* JSON: the bare `except:` returns {"is_valid": False}, and the loop goes
\* on with attempt += 1, bound += 200.
VerifySwallow ==
    /\ prog \in SegProgs /\ pc = "verify"
    /\ fault' \in {"no_content", "not_json"}
    /\ verification' = [has |-> {"is_valid"}, is_valid |-> FALSE]
    /\ attempt' = attempt + 1
    /\ upper_bound' = upper_bound + bound_increment
    /\ pc' = "seg"
    /\ UNCHANGED <<runVars, seg_log, driverVars, end_index, sentence, corrVars,
                   histVars>>

\* Variant: leaving the segmentation loop without a valid candidate raises.
SegExit_FatalExhaustion ==
    /\ prog = "main" /\ pc = "seg" /\ ~SegContinue
    /\ QA_passed' = FALSE
    /\ correction_attempt' = 0
    /\ pc' = IF verification.is_valid THEN "propose" ELSE "aborted"
    /\ nProp' = 0 /\ nQAThis' = 0 /\ allLow' = TRUE
    /\ lastJudged' = "none" /\ judgedText' = <<>>
    /\ judgedVerdict' = NoVerdict /\ acceptedSeen' = FALSE
    /\ UNCHANGED <<runVars, seg_log, driverVars, segVars, sentence, correction,
                   qa_result, num_attempts, qa_yielded_result>>
    /\ fault' = "none"

\* The segmentation loop is left; the correction loop's locals are set.
SegExit ==
    /\ prog = "main" /\ pc = "seg" /\ ~SegContinue
    /\ QA_passed' = FALSE
    /\ correction_attempt' = 0
    /\ pc' = "propose"
    /\ nProp' = 0 /\ nQAThis' = 0 /\ allLow' = TRUE
    /\ lastJudged' = "none" /\ judgedText' = <<>>
    /\ judgedVerdict' = NoVerdict /\ acceptedSeen' = FALSE
    /\ UNCHANGED <<runVars, seg_log, driverVars, segVars, sentence, correction,
                   qa_result, num_attempts, qa_yielded_result>>
    /\ fault' = "none"

\* --------------------------- preprocessing.py: preprocessing_main
\* `while document.strip():` and the per-sentence locals.  The loop body
\* is entered at most StepCap times.
PrepStep ==
    /\ prog = "prep" /\ pc = "driver"
    /\ IF Strip(document) # <<>>
       THEN /\ Len(results) < StepCap
            /\ upper_bound' = initial_sentence_length_upper_bound
            /\ attempt' = 0
            /\ verification' = [has |-> {"is_valid"}, is_valid |-> FALSE]
            /\ seg_log' = NoSegLog
            /\ pc' = "seg"
       ELSE /\ pc' = "done"
            /\ UNCHANGED <<upper_bound, attempt, verification, seg_log>>
    /\ UNCHANGED <<runVars, driverVars, end_index, sentence, corrVars,
                   histVars>>
    /\ fault' = "none"

\* The segmentation loop is left: the entry is stored, the document is
\* advanced, and the loop ends when fewer than 3 characters remain after
\* stripping.
PrepExit ==
    /\ prog = "prep" /\ pc = "seg" /\ ~SegContinue
    /\ results' = Append(results, [sentence |-> sentence,
                                   length |-> Len(sentence)])
    /\ document' = Drop(document, end_index)
    /\ pc' = IF Len(Strip(Drop(document, end_index))) < 3
             THEN "done" ELSE "driver"
    /\ UNCHANGED <<runVars, seg_log, total_chars, chars_processed,
                   sentence_count, preprocessed, i, segVars, sentence,
                   corrVars, histVars>>
    /\ fault' = "none"

\* ---------------------- preprocessing.py: extract_sentence_from_queue
\* One call extract_sentence_from_queue(document, upper_bound) with the
\* extractor answering `resp`.
ExtractCall ==
    /\ prog = "extract" /\ pc = "call"
    /\ \E resp \in ExtractorReplies :
          LET r == extract_sentence_from_queue(document, upper_bound, resp)
          IN  /\ sentence' = r.sentence
              /\ end_index' = r.end_index
              /\ seg_log' = LogExtract(seg_log, document, upper_bound, r)
    /\ pc' = "returned"
    /\ UNCHANGED <<runVars, driverVars, upper_bound, attempt, verification,
                   corrVars, histVars>>
    /\ fault' = "none"

\* ------------------------------ correct.py: assemble_corrected_paper
\* Variant: every final is followed by a space.
RECURSIVE assemble_TrailingSpace(_)
assemble_TrailingSpace(rs) ==
    IF rs = <<>> THEN <<>>
    ELSE Head(rs).final \o <<" ">> \o assemble_TrailingSpace(Tail(rs))

\* " ".join(result["final"] for result in corrected_results)
RECURSIVE assemble_corrected_paper(_)
assemble_corrected_paper(rs) ==
    IF rs = <<>> THEN <<>>
    ELSE IF Len(rs) = 1 THEN Head(rs).final
    ELSE Head(rs).final \o <<" ">> \o assemble_corrected_paper(Tail(rs))

\* One call final_paper = assemble_corrected_paper(results).
AssembleCall ==
    /\ prog = "assemble" /\ pc = "call"
    /\ final_paper' = assemble_corrected_paper(results)
    /\ pc' = "returned"
    /\ fault' = "none"
    /\ UNCHANGED <<prog, input, replies, seg_log, driverVars, segVars,
                   sentence, corrVars, histVars>>

\* --------------------------------------- main.py: correction loop
\* Variant: the loop condition does not consult QA_passed.
MainContinue_IgnoresQA == correction_attempt < max_correction_attempts

\* `while not QA_passed and correction_attempt < max_correction_attempts`
MainContinue == ~QA_passed /\ correction_attempt < max_correction_attempts

\* One proposer call and the two gates that follow it.
MainPropose ==
    /\ prog = "main" /\ pc = "propose" /\ MainContinue
    /\ \E p \in ProposerReplies(sentence) :
          /\ correction' = p
          /\ allLow' = (allLow /\ Has(p, "confidence") /\ p.confidence <= 5)
          /\ IF ~Has(p, "confidence") \/ LowConfidence(p)
             THEN /\ correction_attempt' = correction_attempt + 1
                  /\ pc' = "propose"
             ELSE /\ correction_attempt' = correction_attempt
                  /\ pc' = IF Has(p, "corrected_sentence")
                           THEN "qa" ELSE "aborted"
    /\ nProp' = nProp + 1
    /\ nQAThis' = 0
    /\ lastJudged' = IF lastJudged = "none" THEN "none" ELSE "earlier"
    /\ UNCHANGED <<runVars, seg_log, driverVars, segVars, sentence, qa_result, QA_passed,
                   num_attempts, qa_yielded_result, judgedText, judgedVerdict,
                   acceptedSeen>>
    /\ fault' = "none"

\* One validator call for the current proposal and the decision on it.
MainQA ==
    /\ prog = "main" /\ pc = "qa"
    /\ \E v \in ValidatorReplies :
          /\ qa_result' = v
          /\ judgedVerdict' = v
          /\ acceptedSeen' = (acceptedSeen \/ AllThreeTrue(v))
          /\ IF Complete(v) /\ Accepting(v)
             THEN /\ QA_passed' = TRUE
                  /\ correction_attempt' = correction_attempt
             ELSE /\ QA_passed' = QA_passed
                  /\ correction_attempt' = correction_attempt + 1
    /\ pc' = "propose"
    /\ lastJudged' = "current"
    /\ judgedText' = correction.corrected_sentence
    /\ nQAThis' = nQAThis + 1
    /\ UNCHANGED <<runVars, seg_log, driverVars, segVars, sentence, correction,
                   num_attempts, qa_yielded_result, nProp, allLow>>
    /\ fault' = "none"

\* Variant: has_changes compares the texts whether or not QA passed.
MainResult_ChangesIgnoreQA ==
    [original |-> sentence,
     final |-> IF QA_passed THEN correction.corrected_sentence ELSE sentence,
     has_changes |-> sentence # correction.corrected_sentence,
     qa_concerns |-> IF QA_passed THEN Get(qa_result, "concerns", <<>>)
                     ELSE FailureMarker,
     length |-> Len(sentence),
     explanation |-> IF QA_passed THEN Get(correction, "explanation", "")
                     ELSE ""]

\* Variant: final is the last proposal whether or not QA passed.
MainResult_AlwaysCorrected ==
    [original |-> sentence,
     final |-> correction.corrected_sentence,
     has_changes |-> IF QA_passed
                     THEN sentence # correction.corrected_sentence
                     ELSE FALSE,
     qa_concerns |-> IF QA_passed THEN Get(qa_result, "concerns", <<>>)
                     ELSE FailureMarker,
     length |-> Len(sentence),
     explanation |-> IF QA_passed THEN Get(correction, "explanation", "")
                     ELSE ""]

\* The Result Entry of process_sentence().
MainResult ==
    [original |-> sentence,
     final |-> IF QA_passed THEN correction.corrected_sentence ELSE sentence,
     has_changes |-> IF QA_passed
                     THEN sentence # correction.corrected_sentence
                     ELSE FALSE,
     qa_concerns |-> IF QA_passed THEN Get(qa_result, "concerns", <<>>)
                     ELSE FailureMarker,
     length |-> Len(sentence),
     explanation |-> IF QA_passed THEN Get(correction, "explanation", "")
                     ELSE ""]

\* Variant: the cursor is advanced by the length of the sentence.
MainEmit_CountsSentence ==
    /\ prog = "main" /\ pc = "propose" /\ ~MainContinue
    /\ results' = Append(results, MainResult)
    /\ document' = Drop(document, end_index)
    /\ chars_processed' = chars_processed + Len(sentence)
    /\ pc' = "driver"
    /\ UNCHANGED <<runVars, seg_log, total_chars, sentence_count, preprocessed,
                   i, segVars, sentence, corrVars, histVars>>
    /\ fault' = "none"

\* Variant: the consumed count is one more than the offset.
MainEmit_CountsInclusive ==
    /\ prog = "main" /\ pc = "propose" /\ ~MainContinue
    /\ results' = Append(results, MainResult)
    /\ document' = Drop(document, end_index)
    /\ chars_processed' = chars_processed + end_index + 1
    /\ pc' = "driver"
    /\ UNCHANGED <<runVars, seg_log, total_chars, sentence_count, preprocessed, i,
                   segVars, sentence, corrVars, histVars>>
    /\ fault' = "none"

\* The correction loop is left: process_sentence() returns and main()
\* advances the cursor and appends the entry to the progress file.
MainEmit ==
    /\ prog = "main" /\ pc = "propose" /\ ~MainContinue
    /\ results' = Append(results, MainResult)
    /\ document' = Drop(document, end_index)
    /\ chars_processed' = chars_processed + end_index
    /\ pc' = "driver"
    /\ UNCHANGED <<runVars, seg_log, total_chars, sentence_count, preprocessed, i,
                   segVars, sentence, corrVars, histVars>>
    /\ fault' = "none"

\* Variant: the loop ends one sentence before the end of the list.
BatchNext_StopsEarly ==
    /\ prog = "batch" /\ pc = "batch_loop"
    /\ IF i + 1 < Len(preprocessed)
       THEN /\ sentence' = preprocessed[i + 1]
            /\ QA_passed' = FALSE
            /\ correction_attempt' = 0
            /\ pc' = "propose"
            /\ nProp' = 0 /\ nQAThis' = 0 /\ allLow' = TRUE
            /\ lastJudged' = "none" /\ judgedText' = <<>>
            /\ judgedVerdict' = NoVerdict /\ acceptedSeen' = FALSE
       ELSE /\ pc' = "done"
            /\ UNCHANGED <<sentence, QA_passed, correction_attempt, histVars>>
    /\ UNCHANGED <<runVars, seg_log, driverVars, segVars, correction, qa_result,
                   num_attempts, qa_yielded_result>>
    /\ fault' = "none"

\* ------------------------------- correct.py: grammar_correction_main
\* `for i, sentence_info in enumerate(preprocessed_sentences, 1)` and the
\* per-sentence locals; after the last sentence the list is returned.
BatchNext ==
    /\ prog = "batch" /\ pc = "batch_loop"
    /\ IF i < Len(preprocessed)
       THEN /\ sentence' = preprocessed[i + 1]
            /\ QA_passed' = FALSE
            /\ correction_attempt' = 0
            /\ pc' = "propose"
            /\ nProp' = 0 /\ nQAThis' = 0 /\ allLow' = TRUE
            /\ lastJudged' = "none" /\ judgedText' = <<>>
            /\ judgedVerdict' = NoVerdict /\ acceptedSeen' = FALSE
       ELSE /\ pc' = "done"
            /\ UNCHANGED <<sentence, QA_passed, correction_attempt, histVars>>
    /\ UNCHANGED <<runVars, seg_log, driverVars, segVars, correction, qa_result,
                   num_attempts, qa_yielded_result>>
    /\ fault' = "none"

\* Variant: the loop condition does not consult QA_passed.
BatchContinue_IgnoresQA == correction_attempt < batch_max_attempts

\* `while not QA_passed and attempt < max_attempts`
BatchContinue == ~QA_passed /\ correction_attempt < batch_max_attempts

\* One proposer call and the confidence gate; float(correction["confidence"])
\* raises KeyError when the key is absent.  A confident proposal enters the
\* inner QA loop with its locals reset.
BatchPropose ==
    /\ prog = "batch" /\ pc = "propose" /\ BatchContinue
    /\ \E p \in ProposerReplies(sentence) :
          /\ correction' = p
          /\ allLow' = (allLow /\ Has(p, "confidence") /\ p.confidence <= 5)
          /\ IF ~Has(p, "confidence")
             THEN /\ pc' = "aborted"
                  /\ UNCHANGED <<correction_attempt, num_attempts,
                                 qa_yielded_result>>
             ELSE IF LowConfidence(p)
             THEN /\ correction_attempt' = correction_attempt + 1
                  /\ pc' = "propose"
                  /\ UNCHANGED <<num_attempts, qa_yielded_result>>
             ELSE /\ correction_attempt' = correction_attempt
                  /\ num_attempts' = 0
                  /\ qa_yielded_result' = FALSE
                  /\ pc' = "qa"
    /\ nProp' = nProp + 1
    /\ nQAThis' = 0
    /\ lastJudged' = IF lastJudged = "none" THEN "none" ELSE "earlier"
    /\ UNCHANGED <<runVars, seg_log, driverVars, segVars, sentence, qa_result, QA_passed,
                   judgedText, judgedVerdict, acceptedSeen>>
    /\ fault' = "none"

\* One pass of `while num_attempts < max_qa_attempts`: a validator call for
\* the current proposal and the decision on it.  num_attempts is assigned
\* nowhere in the loop.  The history counter stops the model after
\* QACallCap calls for one proposal.
BatchQA ==
    /\ prog = "batch" /\ pc = "qa"
    /\ IF num_attempts < max_qa_attempts
       THEN /\ nQAThis < QACallCap
            /\ IF ~Has(correction, "corrected_sentence")
               THEN /\ pc' = "aborted"
                    /\ UNCHANGED <<qa_result, judgedVerdict, lastJudged,
                                   judgedText, acceptedSeen, QA_passed,
                                   correction_attempt, qa_yielded_result,
                                   nQAThis>>
               ELSE /\ \E v \in ValidatorReplies :
                          /\ qa_result' = v
                          /\ judgedVerdict' = v
                          /\ acceptedSeen' = (acceptedSeen \/ AllThreeTrue(v))
                          /\ IF Complete(v)
                             THEN /\ QA_passed' = Accepting(v)
                                  /\ correction_attempt' =
                                        IF Accepting(v) THEN correction_attempt
                                        ELSE correction_attempt + 1
                                  /\ qa_yielded_result' =
                                        IF Accepting(v) THEN qa_yielded_result
                                        ELSE TRUE
                                  /\ pc' = "propose"
                             ELSE /\ pc' = "qa"
                                  /\ UNCHANGED <<QA_passed, correction_attempt,
                                                 qa_yielded_result>>
                    /\ lastJudged' = "current"
                    /\ judgedText' = correction.corrected_sentence
                    /\ nQAThis' = nQAThis + 1
       ELSE /\ pc' = "propose"
            /\ UNCHANGED <<qa_result, judgedVerdict, lastJudged, judgedText,
                           acceptedSeen, QA_passed, correction_attempt,
                           qa_yielded_result, nQAThis>>
    /\ UNCHANGED <<runVars, seg_log, driverVars, segVars, sentence, correction,
                   num_attempts, nProp, allLow>>
    /\ fault' = "none"

\* Variant: qa_concerns is taken from qa_result whether or not QA passed.
BatchResult_NoMarker ==
    [original |-> sentence,
     final |-> IF QA_passed THEN correction.corrected_sentence ELSE sentence,
     has_changes |-> (sentence # correction.corrected_sentence) /\ QA_passed,
     qa_concerns |-> Get(qa_result, "concerns", <<>>)]

\* The Result Entry of grammar_correction_main().
BatchResult ==
    [original |-> sentence,
     final |-> IF QA_passed THEN correction.corrected_sentence ELSE sentence,
     has_changes |-> (sentence # correction.corrected_sentence) /\ QA_passed,
     qa_concerns |-> IF QA_passed THEN Get(qa_result, "concerns", <<>>)
                     ELSE FailureMarker]

\* Variant: the entry is put in front of the list.
BatchEmit_Prepends ==
    /\ prog = "batch" /\ pc = "propose" /\ ~BatchContinue
    /\ IF Has(correction, "corrected_sentence")
       THEN /\ results' = <<BatchResult>> \o results
            /\ i' = i + 1
            /\ pc' = "batch_loop"
       ELSE /\ pc' = "aborted"
            /\ UNCHANGED <<results, i>>
    /\ UNCHANGED <<runVars, seg_log, document, total_chars, chars_processed,
                   sentence_count, preprocessed, segVars, sentence, corrVars,
                   histVars>>
    /\ fault' = "none"

\* The outer loop is left and the entry is stored;
\* correction["corrected_sentence"] is read whether or not QA passed.
BatchEmit ==
    /\ prog = "batch" /\ pc = "propose" /\ ~BatchContinue
    /\ IF Has(correction, "corrected_sentence")
       THEN /\ results' = Append(results, BatchResult)
            /\ i' = i + 1
            /\ pc' = "batch_loop"
       ELSE /\ pc' = "aborted"
            /\ UNCHANGED <<results, i>>
    /\ UNCHANGED <<runVars, seg_log, document, total_chars, chars_processed,
                   sentence_count, preprocessed, segVars, sentence, corrVars,
                   histVars>>
    /\ fault' = "none"

\* A proposer or validator call raises (chat() fails, the response has no
\* content, or the content is not JSON): nothing catches it.
ModelCallRaise ==
    /\ fault' \in {"call_failed", "no_content", "not_json"}
    /\ \/ prog = "main" /\ pc = "propose" /\ MainContinue
       \/ prog = "main" /\ pc = "qa"
       \/ prog = "batch" /\ pc = "propose" /\ BatchContinue
       \/ prog = "batch" /\ pc = "qa" /\ num_attempts < max_qa_attempts
    /\ pc' = "aborted"
    /\ UNCHANGED <<runVars, seg_log, driverVars, segVars, sentence, corrVars, histVars>>

Next ==
    \/ DriverStep
    \/ Extract
    \/ ExtractRaise
    \/ Verify
    \/ VerifyRaise
    \/ VerifySwallow
    \/ SegExit
    \/ MainPropose
    \/ MainQA
    \/ MainEmit
    \/ BatchNext
    \/ BatchPropose
    \/ BatchQA
    \/ BatchEmit
    \/ ModelCallRaise

Spec == Init /\ [][Next]_vars

\* The three drivers with the sample of proposer and validator responses.
NextDriver ==
    \/ DriverStep
    \/ PrepStep
    \/ Extract
    \/ ExtractRaise
    \/ Verify
    \/ VerifyRaise
    \/ VerifySwallow
    \/ SegExit
    \/ PrepExit
    \/ MainPropose
    \/ MainQA
    \/ MainEmit
    \/ BatchNext
    \/ BatchPropose
    \/ BatchQA
    \/ BatchEmit
    \/ ModelCallRaise

SpecDriver == InitDriver /\ [][NextDriver]_vars

\* extract_sentence_from_queue() applied to bounded inputs.
NextExtract ==
    \/ ExtractCall
    \/ ExtractRaise

SpecExtract == InitExtract /\ [][NextExtract]_vars

\* assemble_corrected_paper() applied to bounded inputs.
NextAssemble == AssembleCall

SpecAssemble == InitAssemble /\ [][NextAssemble]_vars

\* ---------------------------------------------------------------- claims
\* The correction loop of the current sentence has just ended and its
\* Result Entry is the last one of `results`; the history variables still
\* describe that sentence.
JustEmitted == pc \in {"driver", "batch_loop"} /\ results # <<>>
LastEntry == results[Len(results)]

\* The last validator call answered a verdict with all three flags present
\* and not all of them true.
LastVerdictRejects ==
    /\ lastJudged # "none"
    /\ FlagKeys \subseteq judgedVerdict.has
    /\ ~AllThreeTrue(judgedVerdict)

\* The last validator call answered a verdict lacking one of the flags.
LastVerdictMalformed ==
    /\ lastJudged # "none"
    /\ ~(FlagKeys \subseteq judgedVerdict.has)

\* The outer attempt limit of the entry point that runs.
OuterLimit ==
    IF prog = "main" THEN max_correction_attempts ELSE batch_max_attempts

\* The step is a validator call that returned.
ValidatorAnswered == nQAThis' = nQAThis + 1

\* The step is a proposer call that returned.
ProposerAnswered == nProp' = nProp + 1

\* C1 - Fallback safety: when the correction loop of a sentence ends and
\* no verdict with all three flags true was received for it, the Result
\* Entry has final = original (the sentence) and has_changes = FALSE.
C1_FallbackSafety ==
    (JustEmitted /\ ~acceptedSeen) =>
        /\ LastEntry.original = sentence
        /\ LastEntry.final = LastEntry.original
        /\ LastEntry.has_changes = FALSE

\* C1 witness: an entry emitted after at least one rejected or malformed
\* verdict and a later proposal, with no accepting verdict.
C1_Witness ==
    /\ JustEmitted /\ ~acceptedSeen
    /\ lastJudged = "earlier"
    /\ correction.corrected_sentence # sentence
    /\ LastEntry.final = sentence

\* C2 - No unvalidated rewrite: the final of an emitted entry is the
\* original sentence unless an accepting verdict was received, and then the
\* verdict was issued for the proposal still held in `correction` (no
\* proposal was fetched after it), final is the corrected text that was
\* given to the validator, qa_concerns are that verdict's concerns and the
\* explanation (when the entry has one) is that proposal's explanation.
C2_NoUnvalidatedRewrite ==
    JustEmitted =>
        /\ ~acceptedSeen => LastEntry.final = LastEntry.original
        /\ acceptedSeen =>
              /\ lastJudged = "current"
              /\ AllThreeTrue(judgedVerdict)
              /\ LastEntry.final = judgedText
              /\ LastEntry.final = correction.corrected_sentence
              /\ LastEntry.qa_concerns =
                    (IF "concerns" \in judgedVerdict.has
                     THEN judgedVerdict.concerns ELSE <<>>)
              /\ "explanation" \in DOMAIN LastEntry =>
                    LastEntry.explanation =
                       (IF "explanation" \in correction.has
                        THEN correction.explanation ELSE "")

\* C2 witness: a rewrite accepted on a later proposal after at least one
\* earlier proposal had spent an attempt.
C2_Witness ==
    /\ JustEmitted /\ acceptedSeen
    /\ nProp >= 2 /\ correction_attempt >= 1
    /\ LastEntry.final # LastEntry.original
    /\ LastEntry.final = judgedText

\* C3 - Verdict conjunction: an emitted entry has has_changes = TRUE only
\* if a verdict with is_valid, maintains_meaning and technical_accuracy
\* all true was received for the sentence; and after a verdict in which any
\* flag is false or absent the proposal is not accepted.
C3_VerdictConjunction ==
    /\ (JustEmitted /\ LastEntry.has_changes) =>
          acceptedSeen /\ AllThreeTrue(judgedVerdict)
    /\ (lastJudged # "none" /\ ~AllThreeTrue(judgedVerdict)) => ~QA_passed

\* C3 witness: a verdict with exactly one flag false has been received and
\* the proposal was not accepted.
C3_Witness ==
    /\ LastVerdictRejects
    /\ Cardinality({k \in FlagKeys : judgedVerdict[k]}) = 2
    /\ ~QA_passed
    /\ pc = "propose"

\* C4 - Confidence gating: a proposal whose confidence is <= 0.5 (0.5
\* included) is never given to the validator, and the step that fetches it
\* consumes exactly one outer attempt and returns to proposing.
C4_GateInv ==
    ("confidence" \in correction.has /\ correction.confidence <= 5) =>
        (pc # "qa" /\ nQAThis = 0)

C4_GateStep ==
    (/\ ProposerAnswered
     /\ "confidence" \in correction'.has
     /\ correction'.confidence <= 5) =>
        /\ correction_attempt' = correction_attempt + 1
        /\ pc' = "propose"
        /\ nQAThis' = 0
        /\ UNCHANGED <<qa_result, judgedVerdict, judgedText>>

C4_ConfidenceGating == [](C4_GateInv) /\ [][C4_GateStep]_vars

\* C4 witness: a proposal with confidence exactly 0.5 was fetched and
\* skipped.
C4_Witness ==
    /\ pc = "propose"
    /\ nProp >= 1 /\ correction_attempt = nProp
    /\ "confidence" \in correction.has /\ correction.confidence = 5
    /\ nQAThis = 0 /\ lastJudged = "none"

\* C5 - Outer budget: at most 5 proposals are fetched for one sentence;
\* when every proposal has confidence <= 0.5 exactly 5 are fetched, no
\* validator call is made and the entry is the exhaustion fallback.
C5_OuterBudget ==
    /\ nProp <= 5
    /\ (JustEmitted /\ allLow) =>
          /\ nProp = 5
          /\ lastJudged = "none"
          /\ LastEntry.final = sentence
          /\ LastEntry.has_changes = FALSE
          /\ LastEntry.qa_concerns = <<"Failed to find valid correction">>

\* C6 - Inner QA budget: the validator is called at most 5 times for one
\* proposal.
C6_InnerBudget == nQAThis <= 5

\* C7 - Malformed verdict: after a verdict lacking one of the three flags
\* the loop stays with the same proposal (the next call is a validator call,
\* never a proposer call), and a verdict with all three flags ends the
\* validator calls for that proposal.
C7_MalformedStep ==
    /\ (ValidatorAnswered /\ ~(FlagKeys \subseteq judgedVerdict'.has)) =>
          (pc' = "qa" /\ correction' = correction)
    /\ (ValidatorAnswered /\ FlagKeys \subseteq judgedVerdict'.has) =>
          pc' # "qa"
    /\ (lastJudged = "current" /\ LastVerdictMalformed) => ~ProposerAnswered

C7_MalformedRetry == [][C7_MalformedStep]_vars

\* C8 - Accept: once a verdict with all three flags true has been received
\* the only step the loop takes is the one that emits the Result Entry: no
\* proposer call, no validator call, no abort.
C8_AcceptStep ==
    (acceptedSeen /\ pc \in {"propose", "qa"}) =>
        /\ pc = "propose"
        /\ Len(results') = Len(results) + 1
        /\ nProp' = nProp /\ nQAThis' = nQAThis
        /\ correction' = correction /\ qa_result' = qa_result
        /\ results'[Len(results')].final = judgedText

C8_AcceptTerminates == [][C8_AcceptStep]_vars

\* C8 witness: the entry of a sentence whose first proposal was accepted
\* by the first verdict.
C8_Witness ==
    /\ JustEmitted /\ acceptedSeen
    /\ nProp = 1 /\ nQAThis = 1 /\ correction_attempt = 0
    /\ LastEntry.final = judgedText

\* C9 - Reject: a verdict with all three flags present and at least one
\* false adds exactly one to the outer attempt counter and leaves the
\* proposal unaccepted; while budget remains the next call is a proposer
\* call; and a proposal whose last verdict was a rejection is never emitted
\* as final.
C9_RejectStep ==
    /\ (/\ ValidatorAnswered
        /\ FlagKeys \subseteq judgedVerdict'.has
        /\ ~AllThreeTrue(judgedVerdict')) =>
          /\ correction_attempt' = correction_attempt + 1
          /\ ~QA_passed'
          /\ pc' = "propose"
    /\ (/\ pc = "propose" /\ lastJudged = "current" /\ LastVerdictRejects
        /\ correction_attempt < OuterLimit) =>
          (ProposerAnswered \/ pc' = "aborted")

C9_RejectInv ==
    (JustEmitted /\ LastVerdictRejects) =>
        /\ LastEntry.final = LastEntry.original
        /\ LastEntry.has_changes = FALSE

C9_Reject == [](C9_RejectInv) /\ [][C9_RejectStep]_vars

\* C9 witness: a rejected proposal was followed by a fresh proposal.
C9_Witness ==
    /\ lastJudged = "earlier" /\ LastVerdictRejects
    /\ nProp >= 2 /\ correction_attempt >= 1
    /\ pc = "qa"

\* C10 - Exhaustion marker: the qa_concerns of an emitted entry is the
\* one-element list "Failed to find valid correction" when no accepting
\* verdict was received, and the accepting verdict's concerns (the empty
\* list when that verdict has no concerns key) when one was.
C10_ExhaustionMarker ==
    JustEmitted =>
        LastEntry.qa_concerns =
            IF acceptedSeen
            THEN (IF "concerns" \in judgedVerdict.has
                  THEN judgedVerdict.concerns ELSE <<>>)
            ELSE <<"Failed to find valid correction">>

\* C10 witness: in the batch, a fallback entry that follows an entry
\* accepted with concerns.
C10_Witness ==
    /\ JustEmitted /\ Len(results) = 2
    /\ results[1].qa_concerns = <<"c1">>
    /\ ~acceptedSeen
    /\ LastEntry.qa_concerns = <<"Failed to find valid correction">>

\* ------------------------------------------------- claims C11 .. C20
\* C11 - Per-sentence state machine: the correction loop of a sentence makes
\* a bounded number of calls before it ends: the proposer is called at most
\* as often as the outer attempt limit allows, and the validator calls for
\* one proposal stop by themselves before the exploration cap is reached.
C11_BoundedCalls ==
    pc \in {"propose", "qa"} =>
        /\ nProp <= OuterLimit
        /\ nQAThis < QACallCap

\* The step is an extractor call of the segmentation loop that returned.
ExtractorAnswered == seg_log'.calls = seg_log.calls + 1

\* C12 - Segmentation bound schedule: for one sentence the extractor is
\* called at most 5 times, the k-th call uses the size bound
\* 500 + 200 * (k - 1), and the document is the same from the first call to
\* the end of the segmentation loop.
C12_ScheduleStep ==
    /\ ExtractorAnswered =>
          /\ seg_log'.calls <= 5
          /\ seg_log'.bound = 500 + 200 * (seg_log'.calls - 1)
          /\ upper_bound = seg_log'.bound
    /\ (pc \in {"seg", "verify"} /\ pc' \in {"seg", "verify"}) =>
          document' = document

C12_BoundSchedule == [][C12_ScheduleStep]_vars

\* C12 witness: the fifth extractor call for a sentence has been made, with
\* bound 1300, in either entry point that segments.
C12_Witness ==
    /\ prog \in SegProgs /\ pc = "verify"
    /\ seg_log.calls = 5 /\ seg_log.bound = 1300

\* The step stores a Result Entry (main) or a sentence entry (prep).
EntryStored == Len(results') = Len(results) + 1

\* The sentence text of the entry stored by the step.
StoredText ==
    IF prog = "main" THEN results'[Len(results')].original
    ELSE results'[Len(results')].sentence

\* C13 - Segmentation stops at the first valid attempt: once the verifier
\* has reported a candidate valid, no extractor or verifier call follows for
\* that sentence, and the sentence and end_index used afterwards (by the
\* correction loop, in the stored entry and to advance the document) are
\* those of the accepted attempt.
C13_StopStep ==
    (seg_log.accepted /\ pc \in {"seg", "verify", "propose", "qa"}) =>
        /\ pc # "verify" /\ pc' # "verify"
        /\ ~ExtractorAnswered
        /\ sentence = seg_log.acc_sentence /\ sentence' = sentence
        /\ end_index = seg_log.acc_end /\ end_index' = end_index
        /\ EntryStored =>
              /\ StoredText = seg_log.acc_sentence
              /\ document' = SubSeq(document, seg_log.acc_end + 1, Len(document))

C13_StopAtFirstValid == [][C13_StopStep]_vars

\* C13 witness: main stored an entry for a sentence whose second or later
\* candidate was accepted by the verifier, and consumed text for it.
C13_Witness ==
    /\ prog = "main" /\ pc = "driver" /\ results # <<>>
    /\ seg_log.accepted /\ seg_log.calls >= 2 /\ seg_log.calls < 5
    /\ seg_log.acc_end >= 1
    /\ LastEntry.original = seg_log.acc_sentence

\* The verifier has rejected all five candidates of the current sentence.
SegExhausted == seg_log.calls = 5 /\ ~seg_log.accepted

\* C14 - Segmentation exhaustion is non-fatal: when the verifier has
\* rejected all 5 attempts the segmentation loop is left without an abort
\* and without a sixth extractor call, the sentence and end_index are those
\* of the fifth attempt, main goes on to the correction loop with them, and
\* the entry that is stored carries that sentence while the document is
\* advanced by that end_index.
C14_ExhaustionStep ==
    /\ (prog \in SegProgs /\ pc = "seg" /\ SegExhausted) =>
          /\ pc' # "aborted"
          /\ ~ExtractorAnswered
          /\ sentence' = seg_log.sentence
          /\ end_index' = seg_log.end_index
          /\ prog = "main" => pc' = "propose"
          /\ prog = "prep" => EntryStored
    /\ (prog \in SegProgs /\ SegExhausted /\ EntryStored) =>
          /\ StoredText = seg_log.sentence
          /\ document' = SubSeq(document, seg_log.end_index + 1, Len(document))

C14_ExhaustionNonFatal == [][C14_ExhaustionStep]_vars

\* C14 witness: main stored a Result Entry for a sentence all five of whose
\* candidates were rejected, and the document got shorter.
C14_Witness ==
    /\ prog = "main" /\ pc = "driver" /\ results # <<>>
    /\ SegExhausted
    /\ LastEntry.original = seg_log.sentence
    /\ seg_log.end_index >= 1
    /\ Len(document) < Len(input)

\* The 0-based offsets at which text s occurs verbatim in text c.
OffsetsOf(c, s) ==
    {k \in 0..Len(c) : k + Len(s) <= Len(c)
                       /\ \A j \in 1..Len(s) : c[k + j] = s[j]}

\* C15 - Extraction drift fallback: extract_sentence_from_queue(text,
\* max_chunk) returns, for the stripped text the extractor answered:
\* end_index = len(chunk) = min(len(text), max_chunk) when that text does not
\* occur verbatim in the chunk, and the offset just past its first
\* occurrence in the chunk when it does.
C15_DriftFallback ==
    (prog = "extract" /\ pc = "returned") =>
        LET chunk_len == IF Len(document) < upper_bound
                         THEN Len(document) ELSE upper_bound
            chunk == [k \in 1..chunk_len |-> document[k]]
            occ == OffsetsOf(chunk, sentence)
        IN  /\ occ = {} => end_index = chunk_len
            /\ occ # {} =>
                  \E k \in occ : /\ \A j \in occ : k <= j
                                 /\ end_index = k + Len(sentence)

\* C15 witness: the call returned with a text that is absent from a chunk
\* shorter than the document, and end_index is the chunk length.
C15_Witness ==
    /\ prog = "extract" /\ pc = "returned"
    /\ sentence # <<>>
    /\ OffsetsOf(document, sentence) = {}
    /\ 1 <= upper_bound /\ upper_bound < Len(document)
    /\ end_index = upper_bound

\* C16 - Boundary fallback termination: while every extractor answer for
\* the current sentence was absent from its chunk, at most 5 extractor calls
\* are made, the segmentation loop is left after the fifth without a further
\* call, and end_index is the length of the last attempt's chunk (the first
\* `bound` characters of the document).
C16_FallbackStep ==
    (/\ prog \in SegProgs /\ pc \in {"seg", "verify", "propose", "qa"}
     /\ seg_log.calls >= 1 /\ seg_log.all_drift) =>
        /\ seg_log.calls <= 5
        /\ end_index = (IF Len(document) < seg_log.bound
                        THEN Len(document) ELSE seg_log.bound)
        /\ (pc = "seg" /\ seg_log.calls = 5) =>
              /\ ~ExtractorAnswered
              /\ pc' \in {"propose", "driver", "done"}

C16_FallbackTermination == [][C16_FallbackStep]_vars

\* C16 witness: five extractor answers, none of them in the document, after
\* which main is in the correction loop with end_index = len(chunk).
C16_Witness ==
    /\ prog = "main" /\ pc = "propose"
    /\ seg_log.calls = 5 /\ seg_log.all_drift
    /\ OffsetsOf(document, sentence) = {}
    /\ Len(document) >= 2
    /\ end_index = Len(document)

\* C17 - Forward progress: every step of main that stores an entry was made
\* with an end_index of at least 1 and leaves the remaining document
\* strictly shorter, whatever the extractor answered.
C17_ProgressStep ==
    (prog = "main" /\ EntryStored) =>
        /\ end_index >= 1
        /\ Len(document') < Len(document)

C17_ForwardProgress == [][C17_ProgressStep]_vars

\* C18 - Run termination: the driver loop ends because every loop body
\* shortens the document, so the number of loop bodies started never
\* exceeds the number of characters of the input document (main counts them
\* in sentence_count, preprocessing_main stores one entry per body).
C18_RunTermination ==
    /\ prog = "main" => sentence_count <= Len(input)
    /\ prog = "prep" => Len(results) <= Len(input)

\* main() has left its loop normally.
MainDone == prog = "main" /\ pc = "done"

\* C19 as stated - Coverage: when main terminates normally the sum of the
\* end_index of every step equals the length of the original document.
C19_CoverageAsStated == MainDone => chars_processed = Len(input)

\* C19 - Coverage, amended: when main terminates normally the sum of the
\* end_index of every step plus the length of the unconsumed remainder
\* equals the length of the original document, the remainder is the tail
\* of the original document and contains only whitespace.
C19_Coverage ==
    MainDone =>
        /\ chars_processed + Len(document) = Len(input)
        /\ total_chars = Len(input)
        /\ \A k \in 1..Len(document) :
              /\ document[k] = " "
              /\ document[k] = input[chars_processed + k]

\* C19 witness: main terminated normally after consuming text and left
\* trailing whitespace unconsumed.
C19_Witness ==
    /\ MainDone
    /\ chars_processed >= 1
    /\ document # <<>>
    /\ chars_processed < Len(input)

\* The original fields of the entries of rs, concatenated in order.
RECURSIVE ConcatOriginals(_)
ConcatOriginals(rs) ==
    IF rs = <<>> THEN <<>>
    ELSE ConcatOriginals(SubSeq(rs, 1, Len(rs) - 1)) \o rs[Len(rs)].original

\* main has just stored the Result Entry of a step.
MainStepDone == prog = "main" /\ pc = "driver" /\ results # <<>>

\* C20 as stated - Lossless accumulation: after each step of main the
\* concatenation of the original fields in order equals the consumed prefix
\* of the input document.
C20_LosslessAsStated ==
    MainStepDone =>
        ConcatOriginals(results) = SubSeq(input, 1, chars_processed)

\* C20 - Lossless accumulation, amended: after each step of main the
\* consumed prefix followed by the remaining document is the input document
\* (the cursor skips nothing and takes nothing twice), the region consumed
\* by the step ends with the entry's original at its first occurrence when
\* the extractor's text occurs in the chunk, and is the whole chunk when it
\* does not occur.
C20_Lossless ==
    MainStepDone =>
        LET start == chars_processed - end_index
            before == SubSeq(input, start + 1, Len(input))
            chunk_len == IF Len(before) < seg_log.bound
                         THEN Len(before) ELSE seg_log.bound
            chunk == SubSeq(before, 1, chunk_len)
            orig == LastEntry.original
            occ == OffsetsOf(chunk, orig)
        IN  /\ start >= 0
            /\ input = SubSeq(input, 1, chars_processed) \o document
            /\ occ # {} =>
                  /\ end_index - Len(orig) \in occ
                  /\ \A k \in occ : end_index - Len(orig) <= k
            /\ occ = {} => end_index = chunk_len

\* C20 witness: main stored an entry whose original occurs in the document
\* after text that the step consumed as well.
C20_Witness ==
    /\ MainStepDone
    /\ LastEntry.original # <<>>
    /\ OffsetsOf(input, LastEntry.original) # {}
    /\ end_index > Len(LastEntry.original)
    /\ Len(ConcatOriginals(results)) < chars_processed

\* ------------------------------------------------- claims C21 .. C30
\* C21 - Every Sentence Candidate handed to the verifier or to the
\* correction loop is a contiguous substring of the prefix window of the
\* current document (its first `bound` characters).
C21_CandidateInWindow ==
    (prog \in SegProgs /\ pc \in {"verify", "propose", "qa"}) =>
        LET window == SubSeq(document, 1,
                             IF Len(document) < seg_log.bound
                             THEN Len(document) ELSE seg_log.bound)
        IN  OffsetsOf(window, sentence) # {}

\* C22 - Driver advance: the step that stores an entry leaves as remaining
\* document the previous document without its first end_index characters,
\* end_index being the value the last extractor call of the step returned;
\* main adds it to chars_processed.  No other step changes the document.
C22_AdvanceStep ==
    /\ (prog \in SegProgs /\ EntryStored) =>
          /\ end_index = seg_log.end_index
          /\ end_index <= Len(document)
          /\ Len(document') = Len(document) - end_index
          /\ \A k \in 1..Len(document') : document'[k] = document[end_index + k]
          /\ prog = "main" => chars_processed' = chars_processed + end_index
    /\ ~EntryStored => document' = document

C22_DriverAdvance == [][C22_AdvanceStep]_vars

\* C22 witness: main advanced over part of the document for a sentence
\* whose boundary was never verified and whose correction QA did not
\* accept.
C22_Witness ==
    /\ MainStepDone
    /\ ~seg_log.accepted /\ ~QA_passed
    /\ end_index >= 1 /\ document # <<>>
    /\ Len(document) = Len(input) - end_index

\* C23 - Document invariant: in every state the remaining document is a
\* suffix of the input document, and no step makes it longer.
C23_SuffixInv ==
    /\ Len(document) <= Len(input)
    /\ \A k \in 1..Len(document) :
          document[k] = input[Len(input) - Len(document) + k]

C23_ShrinkStep == Len(document') <= Len(document)

C23_DocumentInvariant == [](C23_SuffixInv) /\ [][C23_ShrinkStep]_vars

\* C23 witness: after two steps of main a proper, non-empty suffix of the
\* input remains.
C23_Witness ==
    /\ MainStepDone /\ Len(results) = 2
    /\ document # <<>>
    /\ Len(document) < Len(input)

\* C24 - No silent truncation: when a driver loop (main or
\* preprocessing_main) has ended normally, the part of the input document
\* that was not consumed contains no non-whitespace character.
C24_NoTruncation ==
    (prog \in SegProgs /\ pc = "done") =>
        \A k \in 1..Len(document) : document[k] = " "

\* C25 - Ordering and immutability: a step either leaves the list of
\* entries alone or appends exactly one entry to it, the entries already
\* there keeping their values and positions; the appended entry is for the
\* sentence of the current step (in batch the next sentence of the input
\* list); and between steps there is one entry per completed driver step.
C25_CountInv ==
    /\ (prog = "main" /\ pc = "driver") => Len(results) = sentence_count
    /\ (prog = "batch" /\ pc = "batch_loop") => Len(results) = i
    /\ prog = "batch" =>
          \A k \in 1..Len(results) : results[k].original = preprocessed[k]

C25_AppendStep ==
    /\ \/ results' = results
       \/ /\ Len(results') = Len(results) + 1
          /\ \A k \in 1..Len(results) : results'[k] = results[k]
          /\ prog \in {"main", "batch"} =>
                results'[Len(results')].original = sentence
          /\ prog = "batch" => sentence = preprocessed[Len(results')]
    /\ (pc \in {"driver", "batch_loop"} /\ pc' \in {"seg", "propose"}) =>
          results' = results

C25_OrderedImmutable == [](C25_CountInv) /\ [][C25_AppendStep]_vars

\* C25 witness: two entries stored for two different sentences, in the
\* order of the input list.
C25_Witness ==
    /\ prog = "batch" /\ pc = "batch_loop" /\ Len(results) = 2
    /\ results[1].original # results[2].original
    /\ results[1].original = preprocessed[1]
    /\ results[2].original = preprocessed[2]

\* The offset in the assembled text at which the final of entry n starts
\* when each earlier final is followed by one separator.
RECURSIVE StartOf(_, _)
StartOf(rs, n) ==
    IF n = 1 THEN 0 ELSE StartOf(rs, n - 1) + Len(rs[n - 1].final) + 1

\* C26 - Assembly: the text returned by assemble_corrected_paper consists
\* of the final fields in order, each pair of consecutive finals separated
\* by exactly one space, with nothing before the first and nothing after
\* the last; two entries give final1, a space, final2; no entry gives the
\* empty text.
C26_Assembly ==
    (prog = "assemble" /\ pc = "returned") =>
        LET n == Len(results)
        IN  /\ n = 0 => final_paper = <<>>
            /\ n >= 1 =>
                  /\ Len(final_paper) =
                        StartOf(results, n) + Len(results[n].final)
                  /\ \A e \in 1..n :
                        /\ \A k \in 1..Len(results[e].final) :
                              final_paper[StartOf(results, e) + k] =
                                 results[e].final[k]
                        /\ e < n =>
                              final_paper[StartOf(results, e + 1)] = " "
            /\ n = 2 =>
                  final_paper = results[1].final \o <<" ">> \o results[2].final

\* C26 witness: three entries with non-empty first and last finals were
\* assembled into a text with two separators.
C26_Witness ==
    /\ prog = "assemble" /\ pc = "returned"
    /\ Len(results) = 3
    /\ results[1].final = <<"a">> /\ results[3].final = <<"x", "y">>
    /\ Len(final_paper) =
          Len(results[1].final) + Len(results[2].final)
          + Len(results[3].final) + 2

\* C27 - A proposal without the confidence field is a failed attempt: the
\* step that receives it adds one to the outer attempt counter and goes
\* back to proposing, with no validator call and no abort.
C27_MissingConfidenceStep ==
    (ProposerAnswered /\ "confidence" \notin correction'.has) =>
        /\ pc' = "propose"
        /\ correction_attempt' = correction_attempt + 1
        /\ qa_result' = qa_result

C27_MissingConfidence == [][C27_MissingConfidenceStep]_vars

\* C28 - Transient model error: in the correction loop of
\* process_sentence a proposer or validator response that is not JSON, or a
\* decoded response with a field missing, never takes the run out of the
\* loop by an abort.
C28_TransientStep ==
    (/\ prog = "main" /\ pc \in {"propose", "qa"}
     /\ fault' = "not_json" \/ ProposerAnswered \/ ValidatorAnswered) =>
        pc' # "aborted"

C28_TransientRecovered == [][C28_TransientStep]_vars

\* C29 - Malformed verifier output: a verifier response that is not JSON,
\* or a decoded response without the is_valid key, counts as one failed
\* segmentation attempt: the attempt counter goes up by one, the bound by
\* 200, and the run stays in the segmentation loop.
C29_MalformedStep ==
    (/\ prog \in SegProgs /\ pc = "verify"
     /\ \/ fault' = "not_json"
        \/ attempt' = attempt + 1 /\ "is_valid" \notin verification'.has) =>
        /\ pc' = "seg"
        /\ attempt' = attempt + 1
        /\ upper_bound' = upper_bound + 200

C29_MalformedVerifier == [][C29_MalformedStep]_vars

\* C30 - Structural response failure: a step in which a model call returned
\* a response without message content ends the run at once (no retry), with
\* no entry stored and the document cursor where it was; an aborted run
\* takes no further step.
C30_StructuralStep ==
    /\ fault' = "no_content" =>
          /\ pc' = "aborted"
          /\ results' = results
          /\ document' = document
          /\ chars_processed' = chars_processed
    /\ pc = "aborted" => pc' = "aborted"

C30_StructuralFailure == [][C30_StructuralStep]_vars

\* ------------------------------------------------- claims C31 .. C39
\* Entry k of the result list was accepted by QA (its qa_concerns are the
\* verdict's, not the failure marker).
AcceptedEntry(k) ==
    results[k].qa_concerns # <<"Failed to find valid correction">>

\* C31 - Idempotence on acceptance: when the correction loop has just
\* ended for a sentence that equals the final of an earlier accepted
\* entry, the entry it produced has has_changes = FALSE.
C31_Idempotence ==
    (prog \in {"main", "batch"} /\ JustEmitted) =>
        LET n == Len(results)
        IN  (\E k \in 1..(n - 1) :
                AcceptedEntry(k) /\ results[k].final = results[n].original)
            => results[n].has_changes = FALSE

\* The step changes the document cursor or the result sequence.
CursorOrResultsChange ==
    \/ document' # document
    \/ chars_processed' # chars_processed
    \/ results' # results

\* C32 - Ownership: the document, chars_processed and the result sequence
\* change only in the end-of-sentence step of the driver, which makes no
\* model call; every step in which the extractor, the verifier, the
\* proposer or the validator is called, answered or failed leaves all three
\* unchanged.
C32_OwnershipStep ==
    /\ CursorOrResultsChange =>
          /\ EntryStored
          /\ pc \in {"propose", "seg"}
          /\ pc' \in {"driver", "batch_loop", "done"}
          /\ seg_log' = seg_log /\ attempt' = attempt
          /\ nProp' = nProp /\ nQAThis' = nQAThis
          /\ fault' = "none"
    /\ (\/ ExtractorAnswered \/ attempt' = attempt + 1
        \/ ProposerAnswered \/ ValidatorAnswered
        \/ fault' # "none") => ~CursorOrResultsChange

C32_Ownership == [][C32_OwnershipStep]_vars

\* C32 witness: in its second step main has retried the segmentation and
\* the correction and is about to call the validator, with the cursor and
\* the results as the first step left them.
C32_Witness ==
    /\ prog = "main" /\ pc = "qa"
    /\ Len(results) = 1 /\ sentence_count = 2
    /\ seg_log.calls >= 2 /\ correction_attempt >= 1
    /\ chars_processed >= 1
    /\ Len(document) = Len(input) - chars_processed

\* The loaded document is empty or holds only whitespace.
BlankInput == \A k \in 1..Len(input) : input[k] = " "

\* C33 - Empty input: for a document that is empty or whitespace-only the
\* driver loop body never runs: the driver is at its loop test or finished,
\* no extractor, proposer or validator call was made or failed, no entry was
\* stored, no step was counted and zero characters were consumed.
C33_EmptyInput ==
    (prog \in SegProgs /\ BlankInput) =>
        /\ pc \in {"driver", "done"}
        /\ seg_log.calls = 0 /\ attempt = 0
        /\ nProp = 0 /\ nQAThis = 0
        /\ fault = "none"
        /\ results = <<>>
        /\ sentence_count = 0
        /\ chars_processed = 0
        /\ document = input

\* C33 witness: main has finished on a non-empty whitespace-only document.
C33_Witness ==
    /\ prog = "main" /\ pc = "done"
    /\ Len(input) >= 1 /\ BlankInput
    /\ results = <<>> /\ chars_processed = 0

\* C34 - Cursor accounting: in main, chars_processed plus the length of the
\* remaining document is total_chars (the length of the loaded document),
\* so chars_processed lies in 0..total_chars; and while a sentence is being
\* processed the offset returned by the extractor lies between 0 and the
\* smaller of the document's length and the size bound of that call.
C34_CursorAccounting ==
    /\ prog = "main" =>
          /\ total_chars = Len(input)
          /\ chars_processed + Len(document) = total_chars
          /\ 0 <= chars_processed /\ chars_processed <= total_chars
    /\ (/\ prog \in SegProgs
        /\ pc \in {"verify", "seg", "propose", "qa"}
        /\ seg_log.calls >= 1) =>
          /\ 0 <= end_index
          /\ end_index <= Len(document)
          /\ end_index <= seg_log.bound
          /\ seg_log.bound = upper_bound - (IF pc = "verify" THEN 0 ELSE bound_increment)

\* C34 witness: main has finished a step that consumed part of the
\* document and the extractor has answered in the next step.
C34_Witness ==
    /\ prog = "main" /\ pc = "verify"
    /\ chars_processed >= 1 /\ Len(document) >= 1
    /\ chars_processed + Len(document) = Len(input)
    /\ end_index >= 1

\* C35 - has_changes of an emitted entry is TRUE exactly when an accepting
\* verdict was received and the text it judged differs from the original;
\* when the accepted text is identical to the original the entry has
\* has_changes = FALSE, final = original and the verdict's concerns (the
\* empty list when the verdict has none) as qa_concerns.
C35_HasChanges ==
    JustEmitted =>
        /\ LastEntry.has_changes =
              (acceptedSeen /\ judgedText # LastEntry.original)
        /\ (acceptedSeen /\ judgedText = LastEntry.original) =>
              /\ LastEntry.has_changes = FALSE
              /\ LastEntry.final = LastEntry.original
              /\ \/ /\ "concerns" \in judgedVerdict.has
                    /\ LastEntry.qa_concerns = judgedVerdict.concerns
                 \/ /\ "concerns" \notin judgedVerdict.has
                    /\ LastEntry.qa_concerns = <<>>

\* C35 witness: an entry whose proposal repeated the original and was
\* accepted, after an earlier proposal of the sentence was turned down.
C35_Witness ==
    /\ JustEmitted /\ acceptedSeen
    /\ judgedText = LastEntry.original
    /\ correction_attempt >= 1
    /\ LastEntry.has_changes = FALSE
    /\ LastEntry.qa_concerns # <<"Failed to find valid correction">>

\* C36 - Validator pairing: every validator call that returns was made for
\* the current sentence and the corrected_sentence of the proposal fetched
\* last, whose confidence is above 0.5; and every fetched proposal with a
\* confidence above 0.5 brings the loop to a validator call, which is left
\* only by that call returning or failing.
C36_PairingStep ==
    /\ ValidatorAnswered =>
          /\ "confidence" \in correction.has /\ correction.confidence > 5
          /\ "corrected_sentence" \in correction.has
          /\ judgedText' = correction.corrected_sentence
          /\ correction' = correction /\ sentence' = sentence
    /\ (/\ ProposerAnswered
        /\ "confidence" \in correction'.has
        /\ correction'.confidence > 5) => pc' = "qa"
    /\ (pc = "qa" /\ pc' # "qa") => (ValidatorAnswered \/ fault' # "none")

C36_ValidatorPairing == [][C36_PairingStep]_vars

\* C37 - Alternation in the segmentation loop: extractor and verifier calls
\* of one sentence alternate, the verifier is given the sentence the
\* extractor returned last, and when the correction loop runs (and when the
\* entry has been stored) the sentence has had between 1 and 5 extractor
\* calls and as many verifier calls.
C37_Alternation ==
    prog \in SegProgs =>
        /\ pc = "seg" =>
              /\ seg_log.calls = attempt
              /\ 0 <= attempt /\ attempt <= 5
        /\ pc = "verify" =>
              /\ seg_log.calls = attempt + 1
              /\ 1 <= seg_log.calls /\ seg_log.calls <= 5
              /\ sentence = seg_log.sentence
        /\ (pc \in {"propose", "qa"} \/ (pc = "driver" /\ results # <<>>)) =>
              /\ seg_log.calls = attempt
              /\ 1 <= attempt /\ attempt <= 5

\* C37 witness: main is about to call the validator for its second
\* sentence after three extractor and three verifier calls for it.
C37_Witness ==
    /\ prog = "main" /\ pc = "qa" /\ sentence_count = 2
    /\ seg_log.calls = 3 /\ attempt = 3
    /\ nProp >= 1

\* C38 - Batch correction loop: when grammar_correction_main returns, the
\* list has exactly one entry per input sentence, in input order, the k-th
\* entry's original being the k-th input sentence, whether the entry was
\* accepted or is a fallback.
C38_OnePerSentence ==
    (prog = "batch" /\ pc = "done") =>
        /\ Len(results) = Len(preprocessed)
        /\ \A k \in 1..Len(preprocessed) :
              /\ results[k].original = preprocessed[k]
              /\ \/ AcceptedEntry(k)
                 \/ /\ results[k].final = preprocessed[k]
                    /\ results[k].has_changes = FALSE

\* C38 witness: the batch returned two entries, the first accepted with a
\* rewrite and the second a fallback.
C38_Witness ==
    /\ prog = "batch" /\ pc = "done"
    /\ Len(preprocessed) = 2 /\ Len(results) = 2
    /\ AcceptedEntry(1) /\ results[1].has_changes
    /\ ~AcceptedEntry(2)

\* The verdict received in the step is a rejection or lacks a flag.
FailedVerdict ==
    /\ ValidatorAnswered
    /\ ~(/\ {"is_valid", "maintains_meaning", "technical_accuracy"}
               \subseteq judgedVerdict'.has
         /\ judgedVerdict'.is_valid
         /\ judgedVerdict'.maintains_meaning
         /\ judgedVerdict'.technical_accuracy)

\* The proposal received in the step has a confidence of at most 0.5 or
\* no confidence field.
FailedProposal ==
    /\ ProposerAnswered
    /\ ("confidence" \in correction'.has => correction'.confidence <= 5)

\* C39 - Shared outer budget: every low-confidence proposal, every proposal
\* without a confidence field and every rejected or malformed verdict
\* spends one unit of the outer attempt counter, which never exceeds the
\* outer attempt limit and goes up at most once per fetched proposal; so
\* the failed verdicts of one proposal alone never outnumber the limit.
C39_FailuresInv ==
    /\ correction_attempt <= OuterLimit
    /\ nQAThis - (IF acceptedSeen THEN 1 ELSE 0) <= OuterLimit

C39_BudgetStep ==
    /\ (FailedProposal \/ FailedVerdict) =>
          correction_attempt' = correction_attempt + 1
    /\ (pc \in {"propose", "qa"} /\ pc' \in {"propose", "qa"}) =>
          /\ correction_attempt' \in
                {correction_attempt, correction_attempt + 1}
          /\ correction_attempt' = correction_attempt + 1 => pc' = "propose"

C39_SharedBudget == [](C39_FailuresInv) /\ [][C39_BudgetStep]_vars

====
